---- MODULE Spec2Model ----
(***************************************************************************)
(* A model of toggl_oxide's API client (src/src/api.rs): the JSON layer    *)
(* it relies on (serde_json text -> Value -> typed struct and back), the   *)
(* response classifier get_json, the credential attacher add_api_key, the  *)
(* URL builder ReportsDetailedParams::to_url, the six endpoint            *)
(* operations of Api, and fn main (src/src/main.rs).                       *)
(***************************************************************************)
EXTENDS Integers, Sequences, FiniteSets, TLC

VARIABLES api_key, pc, op, args, request, outcome, result, trace, serIn, serOut,
          history, env, main

vars == <<api_key, pc, op, args, request, outcome, result, trace, serIn, serOut,
          history, env, main>>

(***************************************************************************)
(* Bounds of the model.                                                    *)
(***************************************************************************)
\* at most this many optional fields of a struct are set in a drawn value
MaxSetFields == 2
\* longest id list drawn for an array-valued report filter
MaxIds == 2
\* most calls made on one Api value
MaxCalls == 3

(***************************************************************************)
(* Values.  One record layout serves JSON values (serde_json::Value) and   *)
(* typed Rust values, so that TLC can compare any two of them.             *)
(*   k     the kind                                                        *)
(*   n     the number / the boolean as 0,1 / the unix seconds of a date    *)
(*   s     the string                                                      *)
(*   items the elements of an array, the member values of an object,       *)
(*         the field values of a struct                                    *)
(*   keys  the member names of an object, the field names of a struct      *)
(***************************************************************************)
V(k, n, s, items, keys) == [k |-> k, n |-> n, s |-> s, items |-> items, keys |-> keys]

\* serde_json::Value
JNull == V("null", 0, "", <<>>, <<>>)
JBool(b) == V("bool", IF b THEN 1 ELSE 0, "", <<>>, <<>>)
JNum(n) == V("num", n, "", <<>>, <<>>)
JStr(s) == V("str", 0, s, <<>>, <<>>)
JArr(items) == V("arr", 0, "", items, <<>>)
JObj(keys, items) == V("obj", 0, "", items, keys)

\* typed Rust values
None == V("none", 0, "", <<>>, <<>>)
TInt(n) == V("i64", n, "", <<>>, <<>>)
TFloat(n) == V("f64", n, "", <<>>, <<>>)
TBool(b) == V("boolean", IF b THEN 1 ELSE 0, "", <<>>, <<>>)
TString(s) == V("string", 0, s, <<>>, <<>>)
TDateTime(ts) == V("datetime", ts, "", <<>>, <<>>)
TVec(items) == V("vec", 0, "", items, <<>>)
TStruct(keys, items) == V("struct", 0, "", items, keys)

\* position of x in the sequence s, 0 when absent (the last one wins, as
\* a later insert into serde_json's Map replaces an earlier one)
IndexOf(s, x) ==
  LET hits == {i \in 1..Len(s) : s[i] = x}
  IN IF hits = {} THEN 0 ELSE CHOOSE i \in hits : \A j \in hits : j <= i

RECURSIVE Concat(_, _, _)
\* ss[lo] \o ... \o ss[hi]
Concat(ss, lo, hi) ==
  IF lo > hi THEN <<>>
  ELSE IF lo = hi THEN ss[lo]
  ELSE LET mid == (lo + hi) \div 2
       IN Concat(ss, lo, mid) \o Concat(ss, mid + 1, hi)

\* the object that inserting the members, in order, into an empty Map gives
MapOf(members) ==
  LET firsts == SelectSeq([j \in 1..Len(members) |-> j],
                          LAMBDA j : \A j2 \in 1..(j - 1) : members[j2].key # members[j].key)
      last(j) == CHOOSE j2 \in 1..Len(members) :
                   /\ members[j2].key = members[j].key
                   /\ \A j3 \in 1..Len(members) : members[j3].key = members[j].key => j3 <= j2
  IN JObj([j \in 1..Len(firsts) |-> members[firsts[j]].key],
          [j \in 1..Len(firsts) |-> members[last(firsts[j])].val])

(***************************************************************************)
(* chrono's DateTime<Utc> <-> RFC 3339 text, for the instants the model    *)
(* draws.                                                                  *)
(***************************************************************************)
DateTimes == {0, 1704067200}

\* DateTime::timestamp: the whole seconds since the epoch
timestamp(datetime) == datetime.n

FormatDateTime(ts) ==
  IF ts = 0 THEN "1970-01-01T00:00:00Z"
  ELSE IF ts = 1704067200 THEN "2024-01-01T00:00:00Z"
  ELSE "+invalid"

IsDateTimeText(s) == \E ts \in DateTimes : FormatDateTime(ts) = s

ParseDateTime(s) == CHOOSE ts \in DateTimes : FormatDateTime(ts) = s

(***************************************************************************)
(* JSON text.  A text is a sequence of tokens; Render writes a Value as    *)
(* text (serde_json::to_vec) and ParseValue reads one back                 *)
(* (serde_json's Value::deserialize), failing on text that is not JSON.    *)
(***************************************************************************)
Tok(t, s, n) == [t |-> t, s |-> s, n |-> n]
Punct(s) == Tok("p", s, 0)       \* punctuation  [ ] { } , :
Lit(s) == Tok("l", s, 0)       \* literal      true false null
Str(s) == Tok("s", s, 0)       \* a string
Num(n) == Tok("n", "", n)      \* a number
Raw(s) == Tok("raw", s, 0)   \* characters that begin no JSON token

RECURSIVE Render(_)
Render(v) ==
  CASE v.k = "null" -> <<Lit("null")>>
    [] v.k = "bool" -> <<Lit(IF v.n = 1 THEN "true" ELSE "false")>>
    [] v.k = "num"  -> <<Num(v.n)>>
    [] v.k = "str"  -> <<Str(v.s)>>
    [] v.k = "arr"  ->
         LET n == Len(v.items)
         IN <<Punct("[")>>
            \o Concat([i \in 1..n |-> Render(v.items[i])
                                      \o (IF i < n THEN <<Punct(",")>> ELSE <<>>)], 1, n)
            \o <<Punct("]")>>
    [] v.k = "obj"  ->
         LET n == Len(v.keys)
         IN <<Punct("{")>>
            \o Concat([i \in 1..n |-> <<Str(v.keys[i]), Punct(":")>> \o Render(v.items[i])
                                      \o (IF i < n THEN <<Punct(",")>> ELSE <<>>)], 1, n)
            \o <<Punct("}")>>

\* the result of reading one value: ok, the value, the next position
PR(ok, v, next) == [ok |-> ok, v |-> v, next |-> next]
PFail == PR(FALSE, JNull, 0)

IsTok(toks, i, t, s) == i <= Len(toks) /\ toks[i].t = t /\ toks[i].s = s
IsOpen(tok) == tok.t = "p" /\ tok.s \in {"[", "{"}
IsClose(tok) == tok.t = "p" /\ tok.s \in {"]", "}"}

\* for each position, how many brackets are open before it
DepthOf(toks) ==
  [k \in 1..(Len(toks) + 1) |->
     Cardinality({j \in 1..(k - 1) : IsOpen(toks[j])})
     - Cardinality({j \in 1..(k - 1) : IsClose(toks[j])})]

\* the position of the bracket that closes the one at i, 0 when none does
Match(toks, depth, i) ==
  LET closers == {j \in (i + 1)..Len(toks) : IsClose(toks[j]) /\ depth[j + 1] = depth[i]}
  IN IF closers = {} THEN 0 ELSE CHOOSE j \in closers : \A j2 \in closers : j <= j2

RECURSIVE ParseAt(_, _, _)

\* what stands directly between the brackets at i and m: the values (by
\* their first token), the commas and the colons
Tops(toks, depth, i, m) ==
  SelectSeq([k \in 1..(m - i - 1) |-> i + k],
            LAMBDA k : depth[k] = depth[i] + 1 /\ ~IsClose(toks[k]))

\* value , value , ... value ]
ParseArray(toks, depth, tops, m) ==
  IF /\ toks[m].s = "]"
     /\ (Len(tops) = 0 \/ Len(tops) % 2 = 1)
     /\ \A j \in 1..Len(tops) :
          IF j % 2 = 1 THEN ParseAt(toks, depth, tops[j]).ok
          ELSE IsTok(toks, tops[j], "p", ",")
    THEN PR(TRUE,
            JArr([j \in 1..((Len(tops) + 1) \div 2) |-> ParseAt(toks, depth, tops[2 * j - 1]).v]),
            m + 1)
  ELSE PFail

\* string : value , ... string : value }
ParseObject(toks, depth, tops, m) ==
  IF /\ toks[m].s = "}"
     /\ (Len(tops) = 0 \/ Len(tops) % 4 = 3)
     /\ \A j \in 1..Len(tops) :
          CASE j % 4 = 1 -> toks[tops[j]].t = "s"
            [] j % 4 = 2 -> IsTok(toks, tops[j], "p", ":")
            [] j % 4 = 3 -> ParseAt(toks, depth, tops[j]).ok
            [] OTHER -> IsTok(toks, tops[j], "p", ",")
    THEN PR(TRUE,
            MapOf([j \in 1..((Len(tops) + 1) \div 4) |->
                     [key |-> toks[tops[4 * j - 3]].s,
                      val |-> ParseAt(toks, depth, tops[4 * j - 1]).v]]),
            m + 1)
  ELSE PFail

\* the array or object whose bracket at i closes at m (0: it never does)
ParseGroup(toks, depth, i, m) ==
  IF m = 0 THEN PFail
  ELSE IF toks[i].s = "[" THEN ParseArray(toks, depth, Tops(toks, depth, i, m), m)
  ELSE ParseObject(toks, depth, Tops(toks, depth, i, m), m)

\* the value that starts at position i
ParseAt(toks, depth, i) ==
  IF i > Len(toks) THEN PFail
  ELSE CASE toks[i].t = "l" ->
              PR(TRUE, IF toks[i].s = "null" THEN JNull ELSE JBool(toks[i].s = "true"), i + 1)
         [] toks[i].t = "n" -> PR(TRUE, JNum(toks[i].n), i + 1)
         [] toks[i].t = "s" -> PR(TRUE, JStr(toks[i].s), i + 1)
         [] IsOpen(toks[i]) -> ParseGroup(toks, depth, i, Match(toks, depth, i))
         [] OTHER -> PFail

\* the value at the head of the text from position i
ParseValue(toks, i) == ParseAt(toks, DepthOf(toks), i)

(***************************************************************************)
(* Shapes: the serde view of the Rust types of api.rs.  A struct lists     *)
(* its fields in declaration order; skip[i] is the field's                 *)
(* #[serde(skip_serializing_if = "Option::is_none")], flat[i] its          *)
(* #[serde(flatten)].                                                      *)
(***************************************************************************)
Sh(k, names, subs, skip, flat) ==
  [k |-> k, names |-> names, subs |-> subs, skip |-> skip, flat |-> flat]

I64 == Sh("i64", <<>>, <<>>, <<>>, <<>>)
F64 == Sh("f64", <<>>, <<>>, <<>>, <<>>)
Bool == Sh("boolean", <<>>, <<>>, <<>>, <<>>)
String == Sh("string", <<>>, <<>>, <<>>, <<>>)
DateTime == Sh("datetime", <<>>, <<>>, <<>>, <<>>)
Option(T) == Sh("opt", <<>>, <<T>>, <<>>, <<>>)
Vec(T) == Sh("vec", <<>>, <<T>>, <<>>, <<>>)

\* a field, a field with skip_serializing_if, a flattened field
Fld(name, T) == [name |-> name, shape |-> T, skip |-> FALSE, flat |-> FALSE]
Skp(name, T) == [name |-> name, shape |-> T, skip |-> TRUE, flat |-> FALSE]
Flt(name, T) == [name |-> name, shape |-> T, skip |-> FALSE, flat |-> TRUE]

Struct(fields) ==
  Sh("struct",
     [i \in 1..Len(fields) |-> fields[i].name],
     [i \in 1..Len(fields) |-> fields[i].shape],
     [i \in 1..Len(fields) |-> fields[i].skip],
     [i \in 1..Len(fields) |-> fields[i].flat])

_ReportsErrorJson ==
  Struct(<<Fld("message", String), Fld("tip", String), Fld("code", I64)>>)

ReportsErrorJson == Struct(<<Fld("error", _ReportsErrorJson)>>)

DefaultErrorJson == Vec(String)

TimeEntry ==
  Struct(<<Skp("id", Option(I64)),
           Skp("description", Option(String)),
           Skp("wid", Option(I64)),
           Skp("pid", Option(I64)),
           Skp("tid", Option(I64)),
           Skp("billable", Option(Bool)),
           Fld("start", DateTime),
           Skp("stop", Option(DateTime)),
           Fld("duration", I64),
           Skp("created_with", Option(String)),
           Skp("tags", Option(Vec(String))),
           Skp("duronly", Option(Bool)),
           Skp("at", Option(DateTime))>>)

Client ==
  Struct(<<Fld("id", I64), Fld("wid", I64), Fld("name", String), Fld("at", DateTime)>>)

Workspace ==
  Struct(<<Skp("id", Option(I64)),
           Fld("name", String),
           Fld("premium", Bool),
           Fld("admin", Bool),
           Fld("default_hourly_rate", F64),
           Fld("default_currency", String),
           Fld("only_admins_may_create_projects", Bool),
           Fld("only_admins_see_billable_rates", Bool),
           Fld("rounding", I64),
           Fld("rounding_minutes", I64),
           Fld("at", DateTime),
           Fld("logo_url", Option(String))>>)

Tag ==
  Struct(<<Skp("id", Option(I64)), Fld("name", String), Fld("wid", I64)>>)

Project ==
  Struct(<<Skp("id", Option(I64)),
           Fld("name", String),
           Fld("wid", I64),
           Fld("cid", Option(I64)),
           Fld("active", Bool),
           Fld("is_private", Bool),
           Skp("template", Option(Bool)),
           Skp("template_id", Option(I64)),
           Fld("billable", Bool),
           Skp("auto_estimates", Option(Bool)),
           Skp("estimated_hours", Option(I64)),
           Fld("at", DateTime),
           Fld("color", String),
           Skp("rate", Option(F64)),
           Fld("created_at", DateTime)>>)

User ==
  Struct(<<Fld("id", I64),
           Fld("api_token", String),
           Fld("default_wid", I64),
           Fld("email", String),
           Fld("fullname", String),
           Fld("jquery_timeofday_format", String),
           Fld("jquery_date_format", String),
           Fld("timeofday_format", String),
           Fld("date_format", String),
           Fld("store_start_and_stop_time", Bool),
           Fld("beginning_of_week", I64),
           Fld("language", String),
           Fld("image_url", String),
           Fld("sidebar_piechart", Bool),
           Fld("at", DateTime),
           Fld("send_product_emails", Bool),
           Fld("send_weekly_report", Bool),
           Fld("send_timer_notifications", Bool),
           Fld("openid_enabled", Bool),
           Fld("timezone", String),
           Fld("time_entries", Option(Vec(TimeEntry))),
           Fld("projects", Option(Vec(Project))),
           Fld("tags", Option(Vec(Tag))),
           Fld("workspaces", Option(Vec(Workspace))),
           Fld("clients", Option(Vec(Client)))>>)

UserResponse == Struct(<<Fld("since", I64), Fld("data", User)>>)

TotalCurrency == Struct(<<Fld("currency", String), Fld("amount", F64)>>)

Report(Data) ==
  Struct(<<Skp("total_grand", Option(I64)),
           Fld("total_billable", Option(I64)),
           Fld("total_count", I64),
           Fld("per_page", I64),
           Fld("total_currencies", Vec(TotalCurrency)),
           Fld("data", Vec(Data))>>)

ReportTimeEntry ==
  Struct(<<Fld("id", I64),
           Fld("pid", Option(I64)),
           Fld("project", Option(String)),
           Fld("client", Option(String)),
           Fld("tid", Option(I64)),
           Fld("task", Option(String)),
           Fld("uid", I64),
           Fld("user", String),
           Fld("description", Option(String)),
           Fld("start", DateTime),
           Fld("end", Option(DateTime)),
           Fld("dur", I64),
           Fld("updated", Option(DateTime)),
           Fld("use_stop", Bool),
           Fld("is_billable", Bool),
           Fld("billable", F64),
           Fld("cur", String),
           Fld("tags", Vec(String)),
           Fld("project_color", String),
           Fld("project_hex_color", Option(String))>>)

TimeEntryRequest == Struct(<<Fld("time_entry", TimeEntry)>>)

TimeEntryResponse == Struct(<<Fld("data", TimeEntry)>>)

ReportsParams ==
  Struct(<<Fld("user_agent", String),
           Fld("workspace_id", I64),
           Skp("since", Option(DateTime)),
           Skp("until", Option(DateTime)),
           Skp("billable", Option(String)),
           Skp("client_ids", Option(Vec(I64))),
           Skp("project_ids", Option(Vec(I64))),
           Skp("user_ids", Option(Vec(I64))),
           Skp("members_of_group_ids", Option(Vec(I64))),
           Skp("or_members_of_group_ids", Option(Vec(I64))),
           Skp("tag_ids", Option(Vec(I64))),
           Skp("task_ids", Option(Vec(I64))),
           Skp("time_entry_ids", Option(Vec(I64))),
           Skp("description", Option(String)),
           Skp("without_description", Option(Bool)),
           Skp("order_field", Option(String)),
           Skp("order_desc", Option(String)),
           Skp("distinct_rates", Option(String)),
           Skp("rounding", Option(String)),
           Skp("display_hours", Option(String))>>)

ReportsDetailedParams ==
  Struct(<<Flt("reports_params", ReportsParams), Fld("page", I64)>>)

(***************************************************************************)
(* serde: Value -> typed value (the derived Deserialize, driven by a       *)
(* Value as the Deserializer) and typed value -> Value (the derived        *)
(* Serialize, as serde_json::to_value drives it).                          *)
(***************************************************************************)
DR(ok, val, err) == [ok |-> ok, val |-> val, err |-> err]

InvalidType(jv, expected) == DR(FALSE, None, "invalid type: " \o jv.k \o ", expected " \o expected)

\* the least element of a set of numbers
Least(S) == CHOOSE i \in S : \A j \in S : i <= j

\* a Vec of the elements' values, or the first element's error
VecOf(rs) ==
  IF \A i \in 1..Len(rs) : rs[i].ok
    THEN DR(TRUE, TVec([i \in 1..Len(rs) |-> rs[i].val]), "")
  ELSE rs[Least({i \in 1..Len(rs) : ~rs[i].ok})]

\* when field i is reached: the members in the object's order, then the
\* absent fields
Reached(shape, jv, i) ==
  IF IndexOf(jv.keys, shape.names[i]) # 0 THEN IndexOf(jv.keys, shape.names[i])
  ELSE Len(jv.keys) + i

\* a struct of the fields' values, or the error of the field reached first
StructOf(shape, jv, rs) ==
  IF \A i \in 1..Len(rs) : rs[i].ok
    THEN DR(TRUE, TStruct(shape.names, [i \in 1..Len(rs) |-> rs[i].val]), "")
  ELSE rs[CHOOSE i \in 1..Len(rs) :
            /\ ~rs[i].ok
            /\ \A j \in 1..Len(rs) : ~rs[j].ok => Reached(shape, jv, i) <= Reached(shape, jv, j)]

RECURSIVE Deserialize(_, _)

\* visit_map: the field by its name; unknown members are ignored, an absent
\* Option field is None, any other absent field fails
FieldOfMap(shape, jv, i) ==
  IF IndexOf(jv.keys, shape.names[i]) # 0
    THEN Deserialize(shape.subs[i], jv.items[IndexOf(jv.keys, shape.names[i])])
  ELSE IF shape.subs[i].k = "opt" THEN DR(TRUE, None, "")
  ELSE DR(FALSE, None, "missing field " \o shape.names[i])

Deserialize(shape, jv) ==
  CASE shape.k = "i64" ->
         IF jv.k = "num" THEN DR(TRUE, TInt(jv.n), "") ELSE InvalidType(jv, "i64")
    [] shape.k = "f64" ->
         IF jv.k = "num" THEN DR(TRUE, TFloat(jv.n), "") ELSE InvalidType(jv, "f64")
    [] shape.k = "boolean" ->
         IF jv.k = "bool" THEN DR(TRUE, TBool(jv.n = 1), "") ELSE InvalidType(jv, "a boolean")
    [] shape.k = "string" ->
         IF jv.k = "str" THEN DR(TRUE, TString(jv.s), "") ELSE InvalidType(jv, "a string")
    [] shape.k = "datetime" ->
         IF jv.k # "str" THEN InvalidType(jv, "a formatted date and time string")
         ELSE IF IsDateTimeText(jv.s) THEN DR(TRUE, TDateTime(ParseDateTime(jv.s)), "")
         ELSE DR(FALSE, None, "input contains invalid characters")
    [] shape.k = "opt" ->
         IF jv.k = "null" THEN DR(TRUE, None, "") ELSE Deserialize(shape.subs[1], jv)
    [] shape.k = "vec" ->
         IF jv.k # "arr" THEN InvalidType(jv, "a sequence")
         ELSE VecOf(<<>> \o [i \in 1..Len(jv.items) |-> Deserialize(shape.subs[1], jv.items[i])])
    [] shape.k = "struct" ->
         CASE jv.k = "obj" ->
                StructOf(shape, jv,
                         <<>> \o [i \in 1..Len(shape.names) |-> FieldOfMap(shape, jv, i)])
           [] jv.k = "arr" ->
                \* visit_seq: the fields by position, exactly as many elements
                IF Len(jv.items) # Len(shape.names)
                  THEN DR(FALSE, None, "invalid length " \o ToString(Len(jv.items)))
                ELSE StructOf(shape, JObj(shape.names, jv.items),
                              <<>> \o [i \in 1..Len(shape.names) |->
                                         Deserialize(shape.subs[i], jv.items[i])])
           [] OTHER -> InvalidType(jv, "struct")

RECURSIVE Serialize(_, _)

\* SerializeField without skip_serializing_if
SerializeField_NoSkip(shape, tv, i) ==
  LET inner == Serialize(shape.subs[i], tv.items[i])
  IN IF shape.flat[i]
       THEN [j \in 1..Len(inner.keys) |-> [key |-> inner.keys[j], val |-> inner.items[j]]]
     ELSE <<[key |-> shape.names[i], val |-> inner]>>

\* the members of an object, as (key, val) pairs
MembersOf(obj) ==
  [j \in 1..Len(obj.keys) |-> [key |-> obj.keys[j], val |-> obj.items[j]]]

\* the members field i of the struct value tv writes
SerializeField(shape, tv, i) ==
  IF shape.skip[i] /\ tv.items[i] = None THEN <<>>
  ELSE IF shape.flat[i] THEN MembersOf(Serialize(shape.subs[i], tv.items[i]))
  ELSE <<[key |-> shape.names[i], val |-> Serialize(shape.subs[i], tv.items[i])]>>

Serialize(shape, tv) ==
  CASE shape.k = "i64" -> JNum(tv.n)
    [] shape.k = "f64" -> JNum(tv.n)
    [] shape.k = "boolean" -> JBool(tv.n = 1)
    [] shape.k = "string" -> JStr(tv.s)
    [] shape.k = "datetime" -> JStr(FormatDateTime(tv.n))
    [] shape.k = "opt" -> IF tv = None THEN JNull ELSE Serialize(shape.subs[1], tv)
    [] shape.k = "vec" -> JArr([i \in 1..Len(tv.items) |-> Serialize(shape.subs[1], tv.items[i])])
    [] shape.k = "struct" ->
         MapOf(Concat([i \in 1..Len(shape.names) |-> SerializeField(shape, tv, i)],
                      1, Len(shape.names)))

(***************************************************************************)
(* The transport boundary: what one send can come back with.               *)
(***************************************************************************)
API_URL == "https://api.track.toggl.com/api/v8"
REPORTS_API_URL == "https://api.track.toggl.com/reports/api/v2/details"

\* Option<String> of a text
SomeText(t) == [some |-> TRUE, v |-> t]
NoText == [some |-> FALSE, v |-> <<>>]

RECURSIVE SampleOf(_)
\* one value of a shape, every Option in it unset
SampleOf(shape) ==
  CASE shape.k = "i64" -> TInt(1)
    [] shape.k = "f64" -> TFloat(1)
    [] shape.k = "boolean" -> TBool(TRUE)
    [] shape.k = "string" -> TString("x")
    [] shape.k = "datetime" -> TDateTime(1704067200)
    [] shape.k = "opt" -> None
    [] shape.k = "vec" -> TVec(<<>>)
    [] shape.k = "struct" ->
         TStruct(shape.names, [i \in 1..Len(shape.names) |-> SampleOf(shape.subs[i])])

BodyEmptyArray == <<Punct("["), Punct("]")>>
BodyMissingParameter == Render(JArr(<<JStr("Missing parameter: start")>>))
BodyReportsError ==
  Render(JObj(<<"error">>,
              <<JObj(<<"message", "tip", "code">>,
                     <<JStr("bad request"), JStr("check params"), JNum(1)>>)>>))
BodyUnexpected == Render(JObj(<<"unexpected">>, <<JStr("shape")>>))
BodyTimeEntry ==
  Render(JObj(<<"data">>,
              <<JObj(<<"id", "start", "duration">>,
                     <<JNum(1), JStr("2024-01-01T00:00:00Z"), JNum(400)>>)>>))
BodyTags == Render(Serialize(Vec(Tag), TVec(<<SampleOf(Tag)>>)))
BodyWorkspaces == Render(Serialize(Vec(Workspace), TVec(<<SampleOf(Workspace)>>)))
BodyProjects == Render(Serialize(Vec(Project), TVec(<<SampleOf(Project)>>)))
BodyUser == Render(Serialize(UserResponse, SampleOf(UserResponse)))
BodyReport == Render(Serialize(Report(ReportTimeEntry), SampleOf(Report(ReportTimeEntry))))
\* a report that also has the member of the reports error shape
BodyReportWithError ==
  SubSeq(BodyReport, 1, Len(BodyReport) - 1) \o <<Punct(",")>> \o Tail(BodyReportsError)
BodyTruncated == <<Punct("{"), Str("data"), Punct(":")>>
BodyHtml == <<Raw("<html>")>>
BodyTrailing == <<Punct("["), Punct("]"), Punct("]")>>
BodyUnexpectedTrailing == BodyUnexpected \o <<Punct("}")>>

Bodies ==
  {BodyEmptyArray, BodyMissingParameter, BodyReportsError, BodyUnexpected,
   BodyTimeEntry, BodyTags, BodyWorkspaces, BodyProjects, BodyUser, BodyReport,
   BodyReportWithError, BodyTruncated, BodyHtml, BodyTrailing, BodyUnexpectedTrailing}

Statuses == {200, 201, 400, 403}

TransportFailures == {"dns error", "connection refused", "timed out"}

\* self.send() fails, or answers with a status and a body that resp.text()
\* can or cannot fetch
Outcomes ==
  {[kind |-> "failure", err |-> e, status |-> 0, body |-> <<>>, text_ok |-> FALSE] :
     e \in TransportFailures}
  \cup {[kind |-> "response", err |-> "", status |-> st, body |-> b, text_ok |-> TRUE] :
     st \in Statuses, b \in Bodies}
  \cup {[kind |-> "response", err |-> "", status |-> st, body |-> <<>>, text_ok |-> FALSE] :
     st \in Statuses}

NoOutcome == [kind |-> "none", err |-> "", status |-> 0, body |-> <<>>, text_ok |-> FALSE]

(***************************************************************************)
(* ApiResult<BlobJson, ErrorJson>, in one record layout.                   *)
(*   variant     "Ok", "Network", "Server", "Parsing"                      *)
(*   blob        the Ok value                                              *)
(*   net         Network's reqwest::Error                                  *)
(*   status_code, text, parsed_json   the ServerError                      *)
(*   text, err   the ParsingError; err.msg is the message in pieces        *)
(***************************************************************************)
NoErr == [some |-> FALSE, category |-> "", msg |-> <<>>]
SomeErr(category, msg) == [some |-> TRUE, category |-> category, msg |-> msg]

Res(variant, blob, net, status_code, text, parsed_json, err) ==
  [variant |-> variant, blob |-> blob, net |-> net, status_code |-> status_code,
   text |-> text, parsed_json |-> parsed_json, err |-> err]

Ok(blob) == Res("Ok", blob, "", 0, NoText, None, NoErr)
Network(e) == Res("Network", None, e, 0, NoText, None, NoErr)
Server(status_code, text, parsed_json) ==
  Res("Server", None, "", status_code, text, parsed_json, NoErr)
Parsing(text, err) == Res("Parsing", None, "", 0, SomeText(text), None, err)
NoResult == Res("none", None, "", 0, NoText, None, NoErr)

\* BothFailed keeping only the last cause, as serde's untagged enums do
BothFailed_InnerOnly(outer_error, inner_error) ==
  <<"Matching ErrorJson failed because of ", inner_error>>

\* the message ResponseJson::deserialize formats when both shapes fail
BothFailed(outer_error, inner_error) ==
  <<"Matching BlobJson failed because of ", outer_error,
    ". Matching ErrorJson failed because of ", inner_error>>

\* ResponseJson::deserialize trying ErrorJson before BlobJson
ResponseJson_deserialize_ErrorFirst(BlobJson, ErrorJson, txt) ==
  LET value == ParseValue(txt, 1)
  IN IF ~value.ok
       THEN [ok |-> FALSE, tag |-> "", v |-> None, next |-> 0,
             err |-> SomeErr("syntax", <<"expected value">>),
             ran |-> <<"Value::deserialize">>]
     ELSE LET errr == Deserialize(ErrorJson, value.v)
          IN IF errr.ok
               THEN [ok |-> TRUE, tag |-> "ErrorJson", v |-> errr.val, next |-> value.next,
                     err |-> NoErr,
                     ran |-> <<"Value::deserialize", "ErrorJson::deserialize">>]
             ELSE LET blob == Deserialize(BlobJson, value.v)
                  IN IF blob.ok
                       THEN [ok |-> TRUE, tag |-> "BlobJson", v |-> blob.val,
                             next |-> value.next, err |-> NoErr,
                             ran |-> <<"Value::deserialize", "ErrorJson::deserialize",
                                       "BlobJson::deserialize">>]
                     ELSE [ok |-> FALSE, tag |-> "", v |-> None, next |-> value.next,
                           err |-> SomeErr("data", BothFailed(blob.err, errr.err)),
                           ran |-> <<"Value::deserialize", "ErrorJson::deserialize",
                                     "BlobJson::deserialize">>]

\* what ResponseJson::deserialize gives: the tagged value or the error, the
\* position after the value, and the deserializers that ran
RJ(ok, tag, v, next, err, ran) ==
  [ok |-> ok, tag |-> tag, v |-> v, next |-> next, err |-> err, ran |-> ran]

\* ResponseJson::deserialize, the arm  Err(outer_error) => match ErrorJson::deserialize(value)
match_ErrorJson(value, blob, errr) ==
  IF errr.ok
    THEN RJ(TRUE, "ErrorJson", errr.val, value.next, NoErr,
            <<"Value::deserialize", "BlobJson::deserialize", "ErrorJson::deserialize">>)
  ELSE RJ(FALSE, "", None, value.next, SomeErr("data", BothFailed(blob.err, errr.err)),
          <<"Value::deserialize", "BlobJson::deserialize", "ErrorJson::deserialize">>)

\* ResponseJson::deserialize,  match BlobJson::deserialize(value.clone())
match_BlobJson(ErrorJson, value, blob) ==
  IF blob.ok
    THEN RJ(TRUE, "BlobJson", blob.val, value.next, NoErr,
            <<"Value::deserialize", "BlobJson::deserialize">>)
  ELSE match_ErrorJson(value, blob, Deserialize(ErrorJson, value.v))

\* ResponseJson::deserialize, after  let value = Value::deserialize(deserializer)?
value_deserialized(BlobJson, ErrorJson, value) ==
  IF ~value.ok
    THEN RJ(FALSE, "", None, 0, SomeErr("syntax", <<"expected value">>),
            <<"Value::deserialize">>)
  ELSE match_BlobJson(ErrorJson, value, Deserialize(BlobJson, value.v))

\* ResponseJson::deserialize: the Value first, then BlobJson, then ErrorJson
ResponseJson_deserialize(BlobJson, ErrorJson, txt) ==
  value_deserialized(BlobJson, ErrorJson, ParseValue(txt, 1))

\* Deserializer::end: nothing may follow the value
de_end(parsed, txt) ==
  IF parsed.ok /\ parsed.next # Len(txt) + 1
    THEN RJ(FALSE, "", None, parsed.next, SomeErr("syntax", <<"trailing characters">>),
            parsed.ran)
  ELSE parsed

\* serde_json::from_str::<ResponseJson<BlobJson, ErrorJson>>
from_str(BlobJson, ErrorJson, txt) ==
  de_end(ResponseJson_deserialize(BlobJson, ErrorJson, txt), txt)

\* send_failed, reporting the failure as an unreadable response
send_failed_AsParsing(out) ==
  [result |-> Parsing(<<Raw("Couldn't fetch response text.")>>, NoErr), trace |-> <<"send", "text">>]

\* send_failed, sending once more before giving up
send_failed_Retries(out) ==
  [result |-> Network(out.err), trace |-> <<"send", "send">>]

\* get_json, the arm  Err(err) => Err(ApiError::Network(err))
send_failed(out) ==
  [result |-> Network(out.err), trace |-> <<"send">>]

\* status_not_200 parsing the body as a list of messages as well
status_not_200_Parsed(out) ==
  [result |-> Server(out.status, IF out.text_ok THEN SomeText(out.body) ELSE NoText,
                     IF out.text_ok /\ ParseValue(out.body, 1).ok
                       THEN Deserialize(DefaultErrorJson, ParseValue(out.body, 1).v).val
                     ELSE None),
   trace |-> <<"send", "status", "status", "text">>]

\* get_json, the arm  if resp.status() != 200 { return Err(ApiError::Server(..)) }
status_not_200(out) ==
  [result |-> Server(out.status, IF out.text_ok THEN SomeText(out.body) ELSE NoText, None),
   trace |-> <<"send", "status", "status", "text">>]

\* status_200 with only the payload shape tried, as in the line get_json
\* keeps commented out (from_str::<BlobJson>)
status_200_BlobOnly(BlobJson, ErrorJson, out) ==
  IF out.text_ok
    THEN LET parsed == from_str(BlobJson, ErrorJson, out.body)
             calls == <<"send", "status", "status", "text", "from_str">> \o parsed.ran
         IN IF ~parsed.ok \/ parsed.tag = "ErrorJson"
              THEN [result |-> Parsing(out.body, parsed.err), trace |-> calls]
            ELSE [result |-> Ok(parsed.v), trace |-> calls]
  ELSE [result |-> Parsing(<<Raw("Couldn't fetch response text.")>>, NoErr),
        trace |-> <<"send", "status", "status", "text">>]

\* text_fetched handing the body's text on with the parsed error
text_fetched_KeepsText(out, parsed) ==
  [result |-> IF ~parsed.ok THEN Parsing(out.body, parsed.err)
              ELSE IF parsed.tag = "ErrorJson"
                THEN Server(out.status, SomeText(out.body), parsed.v)
              ELSE Ok(parsed.v),
   trace |-> <<"send", "status", "status", "text", "from_str">> \o parsed.ran]

\* get_json, the arm  Ok(txt) => match serde_json::from_str(&txt)
text_fetched(out, parsed) ==
  [result |-> IF ~parsed.ok THEN Parsing(out.body, parsed.err)
              ELSE IF parsed.tag = "ErrorJson" THEN Server(out.status, NoText, parsed.v)
              ELSE Ok(parsed.v),
   trace |-> <<"send", "status", "status", "text", "from_str">> \o parsed.ran]

\* get_json, the rest:  match resp.text() { Ok(txt) => .., Err(_) => .. }
status_200(BlobJson, ErrorJson, out) ==
  IF out.text_ok THEN text_fetched(out, from_str(BlobJson, ErrorJson, out.body))
  ELSE [result |-> Parsing(<<Raw("Couldn't fetch response text.")>>, NoErr),
        trace |-> <<"send", "status", "status", "text">>]

\* get_json taking only the 4xx and 5xx statuses for errors
get_json_ClientErrorsOnly(BlobJson, ErrorJson, out) ==
  IF out.kind = "failure" THEN send_failed(out)
  ELSE IF out.status >= 400 THEN status_not_200(out)
  ELSE status_200(BlobJson, ErrorJson, out)

\* ConsolidateApiErrors::get_json on a request whose send comes back with
\* out: the ApiResult, and the calls made on the way in order
get_json(BlobJson, ErrorJson, out) ==
  IF out.kind = "failure" THEN send_failed(out)
  ELSE IF out.status # 200 THEN status_not_200(out)
  ELSE status_200(BlobJson, ErrorJson, out)

(***************************************************************************)
(* Requests: blocking::RequestBuilder as the client builds it.             *)
(***************************************************************************)
NoAuth == [some |-> FALSE, username |-> "", password |-> ""]

\* RequestBuilder::basic_auth(username, Some(password))
basic_auth(username, password) ==
  [some |-> TRUE, username |-> username, password |-> password]

\* Url: the text before the query, and the query pairs
Url(base, query) == [base |-> base, query |-> query]

RequestBuilder(method, url) ==
  [method |-> method, url |-> url, auth |-> NoAuth, body |-> NoText]

NoRequest == RequestBuilder("", Url("", <<>>))

\* add_api_key with the arguments of basic_auth the other way round
add_api_key_Swapped(builder, key) ==
  [builder EXCEPT !.auth = basic_auth("api_token", key)]

\* AddApiKey::add_api_key
add_api_key(builder, key) ==
  [builder EXCEPT !.auth = basic_auth(key, "api_token")]

\* RequestBuilder::json: the body is the serialized value
json(builder, shape, body) ==
  [builder EXCEPT !.body = SomeText(Render(Serialize(shape, body)))]

RECURSIVE join(_, _)
\* [String]::join
join(strs, sep) ==
  IF strs = <<>> THEN ""
  ELSE IF Len(strs) = 1 THEN strs[1]
  ELSE strs[1] \o sep \o join(Tail(strs), sep)

\* one (key, value) of the query, or why there is none
ToAppend(wrapped_val) ==
  CASE wrapped_val.k = "null" -> [panic |-> FALSE, some |-> FALSE, item |-> ""]
    [] wrapped_val.k = "bool" ->
         [panic |-> FALSE, some |-> TRUE, item |-> IF wrapped_val.n = 1 THEN "true" ELSE "false"]
    [] wrapped_val.k = "num" -> [panic |-> FALSE, some |-> TRUE, item |-> ToString(wrapped_val.n)]
    [] wrapped_val.k = "str" -> [panic |-> FALSE, some |-> TRUE, item |-> wrapped_val.s]
    [] wrapped_val.k = "arr" ->
         IF \E i \in 1..Len(wrapped_val.items) : wrapped_val.items[i].k # "str"
           THEN [panic |-> TRUE, some |-> FALSE, item |-> ""]
         ELSE [panic |-> FALSE, some |-> TRUE,
               item |-> join([i \in 1..Len(wrapped_val.items) |-> wrapped_val.items[i].s], ",")]
    [] wrapped_val.k = "obj" -> [panic |-> TRUE, some |-> FALSE, item |-> ""]

\* to_url, the loop: the pairs pushed for the members of the object
query_params(value) ==
  LET kept == SelectSeq([i \in 1..Len(value.keys) |-> i],
                        LAMBDA i : ToAppend(value.items[i]).some)
  IN [j \in 1..Len(kept) |->
        [key |-> value.keys[kept[j]], val |-> ToAppend(value.items[kept[j]]).item]]

\* to_url, after  let json = serde_json::to_value(self).unwrap()
url_of(value) ==
  IF value.k # "obj" \/ \E i \in 1..Len(value.items) : ToAppend(value.items[i]).panic
    THEN [panic |-> TRUE, url |-> Url("", <<>>)]
  ELSE [panic |-> FALSE, url |-> Url(REPORTS_API_URL, <<>> \o query_params(value))]

\* ReportsDetailedParams::to_url: the Url, or a panic
to_url(self) == url_of(Serialize(ReportsDetailedParams, self))

(***************************************************************************)
(* The values the operations are called with.                              *)
(***************************************************************************)
RECURSIVE SubsetsUpTo(_, _)
\* the subsets of S of at most k elements
SubsetsUpTo(S, k) ==
  IF k = 0 THEN {{}}
  ELSE LET smaller == SubsetsUpTo(S, k - 1)
       IN smaller \cup {T \cup {x} : T \in smaller, x \in S}

\* the values a set Option field takes: id lists of every length up to
\* MaxIds, one value of any other shape
Choices(shape) ==
  IF shape.k = "vec" /\ shape.subs[1].k = "i64"
    THEN {TVec([j \in 1..len |-> TInt(j)]) : len \in 0..MaxIds}
  ELSE IF shape.k = "vec" /\ shape.subs[1].k = "string"
    THEN {TVec(<<>>), TVec(<<TString("x")>>)}
  ELSE {SampleOf(shape)}

OptionalFields(shape) == {i \in 1..Len(shape.names) : shape.subs[i].k = "opt"}

\* the values of a struct with at most MaxSetFields of its Options set
Draw(shape) ==
  LET n == Len(shape.names)
      all == UNION {Choices(shape.subs[i].subs[1]) : i \in OptionalFields(shape)}
  IN UNION {
       {TStruct(shape.names,
                [i \in 1..n |-> IF i \in set THEN f[i] ELSE SampleOf(shape.subs[i])]) :
          f \in {g \in [set -> all] : \A i \in set : g[i] \in Choices(shape.subs[i].subs[1])}} :
       set \in SubsetsUpTo(OptionalFields(shape), MaxSetFields)}

ApiKeys == {"1971800d4d82861d8f2c1651fea4d212", "secret"}

Wids == {1, 5864726}

TimeEntries == Draw(TimeEntry)

ReportsDetailedParamsValues ==
  {TStruct(ReportsDetailedParams.names, <<rp, TInt(1)>>) : rp \in Draw(ReportsParams)}

(***************************************************************************)
(* The state: the Api value (its api_key; the client holds nothing the     *)
(* calls read), and the last call: the operation, its argument, the        *)
(* request it built,                                                       *)
(* what the send came back with, the ApiResult it returned and the calls   *)
(* get_json made.  pc is "idle" before the first call, "returned" after a  *)
(* call that returned and "panicked" after one that panicked.              *)
(* serIn and serOut are a value handed to serde_json::to_value and the     *)
(* Value it gave.                                                          *)
(* history is the past of the Api value: for every call that returned, in  *)
(* order, the operation, the api_key the Api held, what the send came back *)
(* with, and the ApiResult and the calls get_json made.                    *)
(* env is the TOGGL_API_KEY of the process environment and main the        *)
(* position of fn main (main.rs), its local api_key, how often it read the *)
(* environment and the message it died with; main.pc is "none" when the    *)
(* Api is used without main.                                               *)
(***************************************************************************)
NoSer == [name |-> "", value |-> None]

\* std::env::var's three answers
EnvNotPresent == [kind |-> "NotPresent", value |-> ""]
EnvNotUnicode == [kind |-> "NotUnicode", value |-> ""]
EnvOk(value) == [kind |-> "Ok", value |-> value]

Main(at, key, reads, message) ==
  [pc |-> at, api_key |-> key, reads |-> reads, message |-> message]

NoMain == Main("none", "", 0, "")

\* Api::new
Init ==
  /\ api_key \in ApiKeys
  /\ pc = "idle"
  /\ op = ""
  /\ args = None
  /\ request = NoRequest
  /\ outcome = NoOutcome
  /\ result = NoResult
  /\ trace = <<>>
  /\ serIn = NoSer
  /\ serOut = JNull
  /\ history = <<>>
  /\ env = EnvOk(api_key)
  /\ main = NoMain

\* a call that built builder, sent it and classified what came back
Returned(name, arg, builder, out, r) ==
  /\ pc' = "returned"
  /\ op' = name
  /\ args' = arg
  /\ request' = builder
  /\ outcome' = out
  /\ result' = r.result
  /\ trace' = r.trace
  /\ history' = Append(history, [op |-> name, api_key |-> api_key, auth |-> builder.auth,
                             outcome |-> out, result |-> r.result, trace |-> r.trace])
  /\ UNCHANGED <<api_key, serIn, serOut, env>>

\* Returns behind a cache: an operation called twice in a row answers what
\* it answered before
Returns_Cached(name, arg, builder, BlobJson, ErrorJson, out) ==
  Returned(name, arg, builder, out,
           IF pc = "returned" /\ op = name THEN [result |-> result, trace |-> trace]
           ELSE get_json(BlobJson, ErrorJson, out))

\* a call that built builder and returns what get_json gives
Returns(name, arg, builder, BlobJson, ErrorJson, out) ==
  Returned(name, arg, builder, out, get_json(BlobJson, ErrorJson, out))

\* a call that panicked before it sent anything
Panics(name, arg) ==
  /\ pc' = "panicked"
  /\ op' = name
  /\ args' = arg
  /\ request' = NoRequest
  /\ outcome' = NoOutcome
  /\ result' = NoResult
  /\ trace' = <<>>
  /\ UNCHANGED <<api_key, serIn, serOut, history, env>>

\* Api::post_and_get_json
post_and_get_json(endpoint, shape, body) ==
  json(add_api_key(RequestBuilder("POST", Url(endpoint, <<>>)), api_key), shape, body)

\* Api::time_entry_create, the send coming back with one of outs
time_entry_create_on(time_entry, outs) ==
  \E out \in outs :
    Returns("time_entry_create", time_entry,
            post_and_get_json(API_URL \o "/time_entries", TimeEntryRequest,
                              TStruct(TimeEntryRequest.names, <<time_entry>>)),
            TimeEntryResponse, DefaultErrorJson, out)

\* Api::workspaces_get_all
workspaces_get_all_on(outs) ==
  \E out \in outs :
    Returns("workspaces_get_all", None,
            add_api_key(RequestBuilder("GET", Url(API_URL \o "/workspaces", <<>>)), api_key),
            Vec(Workspace), DefaultErrorJson, out)

\* Api::workspaces_tags_all
workspaces_tags_all_on(wid, outs) ==
  \E out \in outs :
    Returns("workspaces_tags_all", TInt(wid),
            add_api_key(RequestBuilder("GET",
                Url(API_URL \o "/workspaces/" \o ToString(wid) \o "/tags", <<>>)), api_key),
            Vec(Tag), DefaultErrorJson, out)

\* Api::workspaces_projects_all
workspaces_projects_all_on(wid, outs) ==
  \E out \in outs :
    Returns("workspaces_projects_all", TInt(wid),
            add_api_key(RequestBuilder("GET",
                Url(API_URL \o "/workspaces/" \o ToString(wid) \o "/projects", <<>>)), api_key),
            Vec(Project), DefaultErrorJson, out)

\* Api::reports_detailed
reports_detailed_on(params, outs) ==
  \E endpoint \in {to_url(params)} :
    IF endpoint.panic THEN Panics("reports_detailed", params)
    ELSE \E out \in outs :
           Returns("reports_detailed", params,
                   add_api_key(RequestBuilder("GET", endpoint.url), api_key),
                   Report(ReportTimeEntry), ReportsErrorJson, out)

\* current_user asking for the related data whether or not since is passed
current_user_endpoint_AlwaysRelated(since) ==
  IF since # None
    THEN Url(API_URL \o "/me",
             <<[key |-> "with_related_data", val |-> "true"],
               [key |-> "since", val |-> ToString(timestamp(since))]>>)
  ELSE Url(API_URL \o "/me", <<[key |-> "with_related_data", val |-> "true"]>>)

\* current_user,  let endpoint = match since { Some(datetime) => .., None => .. }
current_user_endpoint(since) ==
  IF since # None
    THEN Url(API_URL \o "/me",
             <<[key |-> "with_related_data", val |-> "true"],
               [key |-> "since", val |-> ToString(timestamp(since))]>>)
  ELSE Url(API_URL \o "/me", <<>>)

\* Api::current_user
current_user_on(since, outs) ==
  \E out \in outs :
    Returns("current_user", since,
            add_api_key(RequestBuilder("GET", current_user_endpoint(since)), api_key),
            UserResponse, DefaultErrorJson, out)

time_entry_create ==
  /\ pc = "idle"
  /\ main.pc = "none"
  /\ \E time_entry \in TimeEntries : time_entry_create_on(time_entry, Outcomes)
  /\ UNCHANGED main

workspaces_get_all ==
  /\ pc = "idle"
  /\ main.pc = "none"
  /\ workspaces_get_all_on(Outcomes)
  /\ UNCHANGED main

workspaces_tags_all ==
  /\ pc = "idle"
  /\ main.pc = "none"
  /\ \E wid \in Wids : workspaces_tags_all_on(wid, Outcomes)
  /\ UNCHANGED main

workspaces_projects_all ==
  /\ pc = "idle"
  /\ main.pc = "none"
  /\ \E wid \in Wids : workspaces_projects_all_on(wid, Outcomes)
  /\ UNCHANGED main

reports_detailed ==
  /\ pc = "idle"
  /\ main.pc = "none"
  /\ \E params \in ReportsDetailedParamsValues : reports_detailed_on(params, Outcomes)
  /\ UNCHANGED main

current_user ==
  /\ pc = "idle"
  /\ main.pc = "none"
  /\ \E since \in {None} \cup {TDateTime(ts) : ts \in DateTimes} :
       current_user_on(since, Outcomes)
  /\ UNCHANGED main

Next ==
  \/ time_entry_create
  \/ workspaces_get_all
  \/ workspaces_tags_all
  \/ workspaces_projects_all
  \/ reports_detailed
  \/ current_user

Spec == Init /\ [][Next]_vars

(***************************************************************************)
(* Several calls on one Api value, one after the other: every operation    *)
(* takes &self, so a call may follow any call that returned.  Calls from   *)
(* several threads touch nothing but their own locals and the Api's        *)
(* fields, which no operation writes, so each call is one step.            *)
(***************************************************************************)
\* what the sends of a session come back with
SessionOutcomes ==
  {[kind |-> "failure", err |-> "timed out", status |-> 0, body |-> <<>>, text_ok |-> FALSE],
   [kind |-> "response", err |-> "", status |-> 200, body |-> BodyEmptyArray, text_ok |-> TRUE],
   [kind |-> "response", err |-> "", status |-> 403, body |-> BodyMissingParameter,
    text_ok |-> TRUE],
   [kind |-> "response", err |-> "", status |-> 200, body |-> <<>>, text_ok |-> FALSE]}

\* the Api value may be called once more
CanCall ==
  /\ pc \in {"idle", "returned"}
  /\ main.pc = "none"
  /\ Len(history) < MaxCalls

session_time_entry_create ==
  /\ CanCall
  /\ time_entry_create_on(SampleOf(TimeEntry), SessionOutcomes)
  /\ UNCHANGED main

session_workspaces_get_all ==
  /\ CanCall
  /\ workspaces_get_all_on(SessionOutcomes)
  /\ UNCHANGED main

session_workspaces_tags_all ==
  /\ CanCall
  /\ workspaces_tags_all_on(1, SessionOutcomes)
  /\ UNCHANGED main

session_workspaces_projects_all ==
  /\ CanCall
  /\ workspaces_projects_all_on(1, SessionOutcomes)
  /\ UNCHANGED main

session_reports_detailed ==
  /\ CanCall
  /\ reports_detailed_on(SampleOf(ReportsDetailedParams), SessionOutcomes)
  /\ UNCHANGED main

session_current_user ==
  /\ CanCall
  /\ current_user_on(None, SessionOutcomes)
  /\ UNCHANGED main

NextCalls ==
  \/ session_time_entry_create
  \/ session_workspaces_get_all
  \/ session_workspaces_tags_all
  \/ session_workspaces_projects_all
  \/ session_reports_detailed
  \/ session_current_user

SpecCalls == Init /\ [][NextCalls]_vars

(***************************************************************************)
(* fn main (main.rs): the process from its start.  There is no Api value   *)
(* (pc = "unconstructed") until main has read TOGGL_API_KEY and called     *)
(* Api::new.                                                               *)
(***************************************************************************)
Envs == {EnvNotPresent, EnvNotUnicode} \cup {EnvOk(key) : key \in ApiKeys}

InitMain ==
  /\ env \in Envs
  /\ main = Main("start", "", 0, "")
  /\ api_key = ""
  /\ pc = "unconstructed"
  /\ op = ""
  /\ args = None
  /\ request = NoRequest
  /\ outcome = NoOutcome
  /\ result = NoResult
  /\ trace = <<>>
  /\ serIn = NoSer
  /\ serOut = JNull
  /\ history = <<>>

\* main_env_var going on with an empty key when the variable cannot be read
main_env_var_OrDefault ==
  /\ main.pc = "start"
  /\ main' = Main("read", env.value, main.reads + 1, "")
  /\ UNCHANGED <<api_key, pc, op, args, request, outcome, result, trace, serIn, serOut,
                 history, env>>

\* let api_key = env::var("TOGGL_API_KEY").expect("Need to set TOGGL_API_KEY env var")
main_env_var ==
  /\ main.pc = "start"
  /\ main' = IF env.kind = "Ok" THEN Main("read", env.value, main.reads + 1, "")
             ELSE Main("panicked", "", main.reads + 1,
                       "Need to set TOGGL_API_KEY env var: " \o env.kind)
  /\ UNCHANGED <<api_key, pc, op, args, request, outcome, result, trace, serIn, serOut,
                 history, env>>

\* let api_client = api::Api::new(&api_key)
main_Api_new ==
  /\ main.pc = "read"
  /\ pc = "unconstructed"
  /\ api_key' = main.api_key
  /\ pc' = "idle"
  /\ main' = [main EXCEPT !.pc = "constructed"]
  /\ UNCHANGED <<op, args, request, outcome, result, trace, serIn, serOut, history, env>>

\* api_client.current_user(Some(since)), since two weeks before now
main_current_user ==
  /\ main.pc = "constructed"
  /\ pc = "idle"
  /\ \E since \in DateTimes : current_user_on(TDateTime(since), Outcomes)
  /\ main' = [main EXCEPT !.pc = "called"]

\* println!("{:?}", .. .unwrap())
main_unwrap ==
  /\ main.pc = "called"
  /\ main' = IF result.variant = "Ok" THEN [main EXCEPT !.pc = "exited"]
             ELSE [main EXCEPT !.pc = "panicked",
                               !.message = "called Result::unwrap() on an Err value"]
  /\ UNCHANGED <<api_key, pc, op, args, request, outcome, result, trace, serIn, serOut,
                 history, env>>

NextMain ==
  \/ main_env_var
  \/ main_Api_new
  \/ main_current_user
  \/ main_unwrap

SpecMain == InitMain /\ [][NextMain]_vars

(***************************************************************************)
(* Serialization of the domain structs on its own: any of the types that   *)
(* derive Serialize, handed to serde_json::to_value.                       *)
(***************************************************************************)
Serializable ==
  {[name |-> "TimeEntry", shape |-> TimeEntry],
   [name |-> "Workspace", shape |-> Workspace],
   [name |-> "Tag", shape |-> Tag],
   [name |-> "Project", shape |-> Project],
   [name |-> "Report", shape |-> Report(ReportTimeEntry)],
   [name |-> "ReportTimeEntry", shape |-> ReportTimeEntry],
   [name |-> "User", shape |-> User],
   [name |-> "ReportsParams", shape |-> ReportsParams]}

ShapeOf(name) == (CHOOSE t \in Serializable : t.name = name).shape

to_value ==
  /\ serIn = NoSer
  /\ \E t \in Serializable : \E value \in Draw(t.shape) :
       /\ serIn' = [name |-> t.name, value |-> value]
       /\ serOut' = Serialize(t.shape, value)
       /\ UNCHANGED <<api_key, pc, op, args, request, outcome, result, trace,
                      history, env, main>>

NextSerde == to_value

SpecSerde == Init /\ [][NextSerde]_vars

(***************************************************************************)
(* Properties.                                                             *)
(***************************************************************************)
\* the BlobJson and ErrorJson of each operation's ApiResult
BlobJsonOf(name) ==
  CASE name = "time_entry_create" -> TimeEntryResponse
    [] name = "workspaces_get_all" -> Vec(Workspace)
    [] name = "workspaces_tags_all" -> Vec(Tag)
    [] name = "workspaces_projects_all" -> Vec(Project)
    [] name = "reports_detailed" -> Report(ReportTimeEntry)
    [] name = "current_user" -> UserResponse

ErrorJsonOf(name) ==
  IF name = "reports_detailed" THEN ReportsErrorJson ELSE DefaultErrorJson

Operations ==
  {"time_entry_create", "workspaces_get_all", "workspaces_tags_all",
   "workspaces_projects_all", "reports_detailed", "current_user"}

\* the JSON value each body's text begins with, if any
Parsed == [txt \in Bodies |-> ParseValue(txt, 1)] @@ <<>>

\* that value as the payload shape and as the error shape of each operation
AsBlobJson ==
  [c \in Operations \X Bodies |-> Deserialize(BlobJsonOf(c[1]), Parsed[c[2]].v)] @@ <<>>

AsErrorJson ==
  [c \in Operations \X Bodies |-> Deserialize(ErrorJsonOf(c[1]), Parsed[c[2]].v)] @@ <<>>

\* the text is one JSON value and nothing else
WellFormed(txt) == Parsed[txt].ok /\ Parsed[txt].next = Len(txt) + 1

\* the body is one JSON value of the operation's payload shape
IsBlobJson == WellFormed(outcome.body) /\ AsBlobJson[<<op, outcome.body>>].ok

\* the body is one JSON value of the operation's error shape
IsErrorJson == WellFormed(outcome.body) /\ AsErrorJson[<<op, outcome.body>>].ok

BlobJsonValue == AsBlobJson[<<op, outcome.body>>].val

ErrorJsonValue == AsErrorJson[<<op, outcome.body>>].val

\* a call returned and its send was answered
Responded == pc = "returned" /\ outcome.kind = "response"

\* a call returned, its send was answered and the body's text fetched
RespondedWithText == Responded /\ outcome.text_ok

Called(tr, call) == \E i \in DOMAIN tr : tr[i] = call

Sends == Cardinality({i \in DOMAIN trace : trace[i] = "send"})

\* C1: a call whose send fails returns Network with that failure, and reads
\* neither the status nor the body.
C1_TransportFailureIsNetwork ==
  (pc = "returned" /\ outcome.kind = "failure") =>
    /\ result = Network(outcome.err)
    /\ ~Called(trace, "status")
    /\ ~Called(trace, "text")
    /\ ~Called(trace, "from_str")

C1_Witness ==
  /\ pc = "returned"
  /\ outcome.kind = "failure"
  /\ outcome.err = "connection refused"
  /\ result.variant = "Network"

\* C2, as amended: a response with status exactly 200 whose body parses as
\* the payload shape returns Ok with that parsed value, whether or not the
\* body also parses as the error shape.
C2_PayloadAt200 ==
  (RespondedWithText /\ outcome.status = 200 /\ IsBlobJson) =>
    result = Ok(BlobJsonValue)

\* C2 as claimed: the same for a response of any status.
C2_PayloadAtAnyStatus ==
  (RespondedWithText /\ IsBlobJson) =>
    result = Ok(BlobJsonValue)

C2_Witness ==
  /\ RespondedWithText
  /\ outcome.status = 200
  /\ IsBlobJson
  /\ IsErrorJson
  /\ result.variant = "Ok"

\* C3, as amended: a response whose body parses as the error shape and not
\* as the payload shape returns Server; with status exactly 200 it carries
\* the parsed error value and no text, with any other status it carries the
\* body's text and no parsed value.
C3_ErrorShape ==
  (/\ RespondedWithText
   /\ IsErrorJson
   /\ ~IsBlobJson) =>
    IF outcome.status = 200
      THEN result = Server(200, NoText, ErrorJsonValue)
    ELSE result = Server(outcome.status, SomeText(outcome.body), None)

\* C3 as claimed: at any status, Server carries the parsed error value.
C3_ErrorShapeAtAnyStatus ==
  (/\ RespondedWithText
   /\ IsErrorJson
   /\ ~IsBlobJson) =>
    /\ result.variant = "Server"
    /\ result.parsed_json = ErrorJsonValue

C3_Witness ==
  /\ RespondedWithText
  /\ outcome.status = 200
  /\ outcome.body = BodyMissingParameter
  /\ ErrorJsonOf(op) = DefaultErrorJson
  /\ ~IsBlobJson
  /\ result.variant = "Server"
  /\ result.parsed_json = TVec(<<TString("Missing parameter: start")>>)

\* the body parses as neither shape of the operation
Neither == ~IsBlobJson /\ ~IsErrorJson

\* the diagnostic holds the cause of the payload shape's failure and, after
\* it, the cause of the error shape's failure
BothCauses(err) ==
  LET outer == AsBlobJson[<<op, outcome.body>>].err
      inner == AsErrorJson[<<op, outcome.body>>].err
  IN /\ err.some
     /\ outer # ""
     /\ inner # ""
     /\ \E i, j \in DOMAIN err.msg : i < j /\ err.msg[i] = outer /\ err.msg[j] = inner

\* C4, as amended: a response with status exactly 200 whose body parses as
\* neither shape returns Parsing with the body's text; when the body is
\* well-formed JSON the diagnostic holds both causes, and when the body
\* does not begin with a JSON value the diagnostic is the syntax error alone.
C4_NeitherShapeAt200 ==
  (RespondedWithText /\ outcome.status = 200 /\ Neither) =>
    /\ result.variant = "Parsing"
    /\ result.text = SomeText(outcome.body)
    /\ result.err.some
    /\ WellFormed(outcome.body) => BothCauses(result.err)
    /\ ~Parsed[outcome.body].ok =>
         (result.err.category = "syntax" /\ Len(result.err.msg) = 1)

\* C4 as claimed: at any status, and for bodies that are not JSON too,
\* Parsing with the body's text and a diagnostic of both causes.
C4_NeitherShapeAlways ==
  (RespondedWithText /\ Neither) =>
    /\ result.variant = "Parsing"
    /\ result.text = SomeText(outcome.body)
    /\ result.err.some
    /\ Len(result.err.msg) = 4
    /\ result.err.msg[2] # ""
    /\ result.err.msg[4] # ""

C4_Witness ==
  /\ RespondedWithText
  /\ outcome.status = 200
  /\ op = "reports_detailed"
  /\ outcome.body = BodyUnexpected
  /\ result.variant = "Parsing"
  /\ BothCauses(result.err)

\* C5: a response whose status is not 200 returns Server with the status and
\* the body's text when it was fetched, and the body is parsed against no
\* shape.
C5_Not200IsServerUnparsed ==
  (Responded /\ outcome.status # 200) =>
    /\ result = Server(outcome.status,
                       IF outcome.text_ok THEN SomeText(outcome.body) ELSE NoText,
                       None)
    /\ ~Called(trace, "from_str")
    /\ ~Called(trace, "Value::deserialize")
    /\ ~Called(trace, "BlobJson::deserialize")
    /\ ~Called(trace, "ErrorJson::deserialize")

C5_Witness ==
  /\ RespondedWithText
  /\ outcome.status = 201
  /\ IsBlobJson
  /\ result.variant = "Server"
  /\ result.text = SomeText(outcome.body)

\* C6: every call of an operation returns, with one of the four results; none
\* panics.
C6_EveryCallReturnsOneResult ==
  pc # "idle" =>
    /\ pc = "returned"
    /\ result.variant \in {"Ok", "Server", "Network", "Parsing"}

C8_AtMostOneSend == Sends <= 1

C8_Witness ==
  /\ pc = "returned"
  /\ result.variant \in {"Network", "Server", "Parsing"}
  /\ Sends = 1

\* the optional fields that have no skip_serializing_if
EmittedAsNull ==
  {<<"Workspace", "logo_url">>, <<"Project", "cid">>, <<"Report", "total_billable">>,
   <<"ReportTimeEntry", "pid">>, <<"ReportTimeEntry", "project">>,
   <<"ReportTimeEntry", "client">>, <<"ReportTimeEntry", "tid">>,
   <<"ReportTimeEntry", "task">>, <<"ReportTimeEntry", "description">>,
   <<"ReportTimeEntry", "end">>, <<"ReportTimeEntry", "updated">>,
   <<"ReportTimeEntry", "project_hex_color">>,
   <<"User", "time_entries">>, <<"User", "projects">>, <<"User", "tags">>,
   <<"User", "workspaces">>, <<"User", "clients">>}

\* the optional fields of the serialized value that are unset
UnsetFields ==
  {i \in OptionalFields(ShapeOf(serIn.name)) : serIn.value.items[i] = None}

QueryText(shape, val) ==
  CASE shape.k = "vec" -> join([j \in 1..Len(val.items) |-> ToString(val.items[j].n)], ",")
    [] shape.k = "i64" -> ToString(val.n)
    [] shape.k = "boolean" -> IF val.n = 1 THEN "true" ELSE "false"
    [] shape.k = "string" -> val.s
    [] shape.k = "datetime" -> FormatDateTime(val.n)

\* the query has the key exactly once, with the text
HasOnce(query, key, text) ==
  /\ Cardinality({j \in DOMAIN query : query[j].key = key}) = 1
  /\ \E j \in DOMAIN query : query[j].key = key /\ query[j].val = text

\* C10: to_url gives every set parameter, the nested ones and page alike,
\* exactly one query parameter, gives an unset one none, and writes a set id
\* list as its elements joined by commas.
C10_EverySetParameterOnce ==
  op = "reports_detailed" =>
    /\ pc = "returned"
    /\ HasOnce(request.url.query, "page", ToString(args.items[2].n))
    /\ \A i \in 1..Len(ReportsParams.names) :
         LET val == args.items[1].items[i]
             shape == ReportsParams.subs[i]
         IN IF val = None
              THEN \A j \in DOMAIN request.url.query :
                     request.url.query[j].key # ReportsParams.names[i]
            ELSE HasOnce(request.url.query, ReportsParams.names[i],
                         QueryText(IF shape.k = "opt" THEN shape.subs[1] ELSE shape, val))

C12_AbsentKeyIsFatalAtStartup ==
  /\ main.reads <= 1
  /\ main.pc # "start" => main.reads = 1
  /\ env.kind = "NotPresent" =>
       /\ main.pc \in {"start", "panicked"}
       /\ main.pc = "panicked" =>
            main.message = "Need to set TOGGL_API_KEY env var: NotPresent"
       /\ pc = "unconstructed"
       /\ request = NoRequest
       /\ trace = <<>>
       /\ history = <<>>

C12_Witness ==
  /\ env.kind = "NotPresent"
  /\ main.pc = "panicked"
  /\ main.reads = 1
  /\ pc = "unconstructed"

\* C13: a response with status exactly 200 whose body parses as the error
\* shape and not as the payload shape returns Server with the parsed error
\* value, status code 200 and no text.
C13_ParsedErrorAt200 ==
  (RespondedWithText /\ outcome.status = 200 /\ IsErrorJson /\ ~IsBlobJson) =>
    /\ result.variant = "Server"
    /\ result.status_code = 200
    /\ result.text = NoText
    /\ result.parsed_json # None
    /\ result.parsed_json = ErrorJsonValue

C13_Witness ==
  /\ RespondedWithText
  /\ op = "reports_detailed"
  /\ outcome.status = 200
  /\ outcome.body = BodyReportsError
  /\ result.variant = "Server"
  /\ result.status_code = 200
  /\ result.text = NoText
  /\ result.parsed_json =
       TStruct(<<"error">>,
               <<TStruct(<<"message", "tip", "code">>,
                         <<TString("bad request"), TString("check params"), TInt(1)>>)>>)

\* C14: a response whose body's text cannot be fetched returns Server,
\* whatever its status.
C14_UnfetchableIsServer ==
  (Responded /\ ~outcome.text_ok) => result.variant = "Server"

\* the keys of the query of the request's Url
QueryKeys == {request.url.query[i].key : i \in DOMAIN request.url.query}

\* C15: current_user requests API_URL/me; with since passed the query is
\* with_related_data=true and since=<the unix seconds of since>, without it
\* the query is empty, so neither parameter is ever sent without the other.
C15_QueryParametersAsOneUnit ==
  (pc = "returned" /\ op = "current_user") =>
    /\ request.method = "GET"
    /\ request.url.base = API_URL \o "/me"
    /\ IF args # None
         THEN request.url.query =
                <<[key |-> "with_related_data", val |-> "true"],
                  [key |-> "since", val |-> ToString(args.n)]>>
       ELSE request.url.query = <<>>
    /\ ("with_related_data" \in QueryKeys) <=> ("since" \in QueryKeys)

C15_Witness ==
  /\ pc = "returned"
  /\ op = "current_user"
  /\ args = TDateTime(1704067200)
  /\ request.url.query =
       <<[key |-> "with_related_data", val |-> "true"],
         [key |-> "since", val |-> "1704067200"]>>

\* C16: a ServerError that a call returns never holds both the body's text
\* and a parsed error, and holds a parsed error exactly when its status code
\* is 200.
C16_ServerErrorTextOrParsed ==
  (pc = "returned" /\ result.variant = "Server") =>
    /\ ~(result.text.some /\ result.parsed_json # None)
    /\ (result.parsed_json # None) <=> (result.status_code = 200)
    /\ result.status_code = outcome.status

C16_Witness ==
  /\ RespondedWithText
  /\ outcome.status = 400
  /\ outcome.body = BodyMissingParameter
  /\ IsErrorJson
  /\ result.variant = "Server"
  /\ result.status_code = 400
  /\ result.text = SomeText(BodyMissingParameter)
  /\ result.parsed_json = None

====
